---------------------------- MODULE Spec2Model ----------------------------
(***************************************************************************)
(* The job store of the ffarm master: the Job rows of src/ffarm/models.py  *)
(* and the operations on them in src/ffarm/jobs.py,                        *)
(* src/ffarm/master/background.py and src/ffarm/master/api.py.             *)
(*                                                                         *)
(* Every operation opens one session (db.session_scope) and commits once,  *)
(* so each is one atomic step.  The HTTP handlers and the two sweepers all *)
(* run on the single asyncio loop of MasterServer._async_main and contain  *)
(* no await between their store calls, so a handler that makes two store   *)
(* calls (job_progress) is one step too.                                   *)
(*                                                                         *)
(* Time is counted in ticks of one lease duration: datetime.utcnow() is    *)
(* the variable now, and LEASE_DURATION_SECONDS is one tick.               *)
(***************************************************************************)
EXTENDS Integers, Sequences, FiniteSets

VARIABLES
    jobs,       \* the Job table: id -> row, for the ids that exist
    now,        \* the clock read by datetime.utcnow()
    history,    \* per job id: how many lease_next_job calls returned the row,
                \* and whose lease the latest of them took over
    last,       \* the operation that was committed last, with its arguments
    workers,    \* the Worker table: id -> row, for the ids that exist
    paused,     \* MasterState._paused
    agent,      \* the WorkerClient processes: worker id -> its fields
    gui         \* the operator's thread: the update_worker_state call it is
                \* in, with the row its session loaded, or <<>>

\* what the operations of the job store leave alone
others == <<workers, paused, agent, gui>>

vars == <<jobs, now, history, last, workers, paused, agent, gui>>

-----------------------------------------------------------------------------
(* Bounds of the model: the clock stops at MaxTime, and a job that has been *)
(* leased MaxAttempts times is not leased again.                           *)

MaxTime == 2
MaxAttempts == 2

(* Program constants. *)

LEASE_DURATION_SECONDS == 1

(* NULL stands for None in a nullable timestamp or integer column, NONE for *)
(* None in a nullable string column.                                        *)
NULL == -1
NONE == "None"

PENDING == "PENDING"
LEASED == "LEASED"
RUNNING == "RUNNING"
SUCCEEDED == "SUCCEEDED"
FAILED == "FAILED"

JobState == {PENDING, LEASED, RUNNING, SUCCEEDED, FAILED}

-----------------------------------------------------------------------------
(* The inputs the operations are called with. *)

WorkerIds == {"w1", "w2"}
\* the ids the Job table may hold; a request may name any of them, whether
\* or not a row has that id at the time
JobIds == {1}
\* progress is a float in [0.0, 1.0], counted here in percent
ProgressValues == {50, 100}
\* (stderr_tail, stdout_tail) of a progress update or a completion report
TailPairs == {<<NONE, NONE>>, <<"err", "out">>}
\* (success, return_code, error_message) of a completion report
Reports == {<<TRUE, 0, NONE>>, <<FALSE, 1, "FFmpeg failed">>}
\* the video files os.walk yields under the root that is enqueued
Folders == {<<"a.mov">>}
Profiles == {"prores_proxy_1280"}

\* Path(input_path).stem
Stem(file) ==
    IF file \in {"a.mov", "a.mp4"} THEN "a"
    ELSE IF file = "DJI_1.mov" THEN "DJI_1"
    ELSE IF file = "DJI_1_Proxy.mov" THEN "DJI_1_Proxy"
    ELSE "b"

\* profiles.PROFILE_SETTINGS: output_subdir, filter_prefix, ignore_proxy_suffix
output_subdir(profile) ==
    IF profile = "prores_proxy_1280" THEN "PROXIES" ELSE "dji_drone_prores_standard"
filter_prefix(profile) ==
    IF profile = "dji_drone_prores_standard" THEN "DJI_" ELSE NONE
ignore_proxy_suffix(profile) == profile = "dji_drone_prores_standard"

\* Path(input_path).name.startswith(prefix) and
\* Path(input_path).stem.endswith("_Proxy"), for the file names used here
NameStartsWith(file, prefix) ==
    prefix = "DJI_" /\ file \in {"DJI_1.mov", "DJI_1_Proxy.mov"}
StemEndsWithProxy(file) == file = "DJI_1_Proxy.mov"

\* enqueue_folder, lines 49-52: the files the profile's filters drop
filtered_out(file, profile) ==
    \/ filter_prefix(profile) # NONE /\ ~NameStartsWith(file, filter_prefix(profile))
    \/ ignore_proxy_suffix(profile) /\ StemEndsWithProxy(file)

\* an output path: the profile's pattern applied to a stem under the
\* profile's output directory, with the collision counter (0: no suffix)
ProfileOutputPath(profile, stem, n) ==
    [dir |-> output_subdir(profile), stem |-> stem, n |-> n]
OutputPath(stem, n) == ProfileOutputPath("prores_proxy_1280", stem, n)
\* the output files that may already exist on the filesystem at an enqueue
DiskStates == {{}, {OutputPath("a", 0)}}

Max(S) == CHOOSE x \in S : \A y \in S : y <= x

-----------------------------------------------------------------------------
(* models.Job *)

Job(input_path, output_path, profile, t) ==
    [ input_path    |-> input_path,
      output_path   |-> output_path,
      profile       |-> profile,
      state         |-> PENDING,
      worker_id     |-> NONE,
      lease_until   |-> NULL,
      progress      |-> 0,
      created_at    |-> t,
      started_at    |-> NULL,
      finished_at   |-> NULL,
      return_code   |-> NULL,
      stderr_tail   |-> NONE,
      stdout_tail   |-> NONE,
      attempts      |-> 0,
      error_message |-> NONE ]

\* the id SQLite gives a new row of an INTEGER PRIMARY KEY table
NewJobId(js) == IF DOMAIN js = {} THEN 1 ELSE Max(DOMAIN js) + 1

Insert(js, row) ==
    [j \in DOMAIN js \cup {NewJobId(js)} |->
        IF j \in DOMAIN js THEN js[j] ELSE row]

Delete(js, ids) == [j \in DOMAIN js \ ids |-> js[j]]

-----------------------------------------------------------------------------
(* jobs.derive_output_path: the first candidate, counting from the          *)
(* unsuffixed name, that is neither in existing_outputs nor on the disk.    *)

RECURSIVE derive_output_path_from(_, _, _, _, _)
derive_output_path_from(profile, stem, n, existing_outputs, on_disk) ==
    IF \/ ProfileOutputPath(profile, stem, n) \in existing_outputs
       \/ ProfileOutputPath(profile, stem, n) \in on_disk
    THEN derive_output_path_from(profile, stem, n + 1, existing_outputs, on_disk)
    ELSE ProfileOutputPath(profile, stem, n)

\* the files lie in the root itself, so mirror_first_subdir adds no directory
derive_output_path(input_path, profile, existing_outputs, on_disk) ==
    derive_output_path_from(profile, Stem(input_path), 0, existing_outputs, on_disk)

\* the lookup of enqueue_folder that sees only the PENDING rows
existing_job_pending_only(js, input_path) ==
    \E j \in DOMAIN js : js[j].input_path = input_path /\ js[j].state = PENDING

\* enqueue_folder, lines 61-63: the row with this input_path, if there is one
existing_job(js, input_path) ==
    \E j \in DOMAIN js : js[j].input_path = input_path

(* jobs.enqueue_folder: the loop over the files from position i on, with    *)
(* the store of the session and the two counters.                           *)
RECURSIVE enqueue_from(_, _, _, _, _, _, _, _, _)
enqueue_from(js, existing_outputs, walk, i, profile, on_disk, t, added, skipped) ==
    IF i > Len(walk) THEN [js |-> js, added |-> added, skipped |-> skipped]
    ELSE LET input_path == walk[i]
             output_path ==
                 derive_output_path(input_path, profile, existing_outputs, on_disk)
         IN  IF filtered_out(input_path, profile)
             THEN enqueue_from(js, existing_outputs, walk, i + 1, profile,
                               on_disk, t, added, skipped)
             ELSE IF existing_job(js, input_path)
             THEN enqueue_from(js, existing_outputs, walk, i + 1, profile,
                               on_disk, t, added, skipped + 1)
             ELSE enqueue_from(Insert(js, Job(input_path, output_path, profile, t)),
                               existing_outputs \cup {output_path},
                               walk, i + 1, profile, on_disk, t, added + 1, skipped)

\* enqueue_folder, lines 44-47: session.exec of a select of one column yields
\* the column's values themselves (as the select(Job) calls of this module
\* rely on), so row[0] is the first character of the stored path, the "/"
\* of an absolute path, and not the path (written here as the path "/": the
\* root directory, no stem, no counter)
row_0(output_path) == [dir |-> "/", stem |-> "", n |-> 0]

\* enqueue_folder: the store it leaves, and the pair (added, skipped) it returns
enqueue_session(js, walk, profile, on_disk, t) ==
    enqueue_from(js, {row_0(js[j].output_path) : j \in DOMAIN js}, walk, 1,
                 profile, on_disk, t, 0, 0)

enqueue_folder(js, walk, profile, on_disk, t) ==
    enqueue_session(js, walk, profile, on_disk, t).js

enqueue_folder_returns(js, walk, profile, on_disk, t) ==
    LET done == enqueue_session(js, walk, profile, on_disk, t)
    IN  <<done.added, done.skipped>>

-----------------------------------------------------------------------------
(* jobs.lease_next_job *)

\* the first SELECT of lease_next_job without its ORDER BY
pending_first_any_order(js) ==
    {j \in DOMAIN js : js[j].state = PENDING}

\* the first row of SELECT ... WHERE state = PENDING ORDER BY created_at:
\* the PENDING rows of smallest created_at (SQL leaves the order of equal
\* keys open)
pending_first(js) ==
    LET pending == {j \in DOMAIN js : js[j].state = PENDING}
    IN  {j \in pending : \A k \in pending : js[j].created_at <= js[k].created_at}

\* the expiry test with <= in place of <
expired_leases_at_deadline(js, t) ==
    {j \in DOMAIN js : /\ js[j].state \in {LEASED, RUNNING}
                       /\ js[j].lease_until # NULL
                       /\ js[j].lease_until <= t}

\* the rows of the second SELECT: LEASED or RUNNING with an expired lease
\* (no ORDER BY: .first() may return any of them)
expired_leases(js, t) ==
    {j \in DOMAIN js : /\ js[j].state \in {LEASED, RUNNING}
                       /\ js[j].lease_until # NULL
                       /\ js[j].lease_until < t}

\* lease_next_job with the expiry test of the second SELECT left out
lease_candidates_ignores_expiry(js, t) ==
    IF pending_first(js) # {} THEN pending_first(js)
    ELSE {j \in DOMAIN js : js[j].state \in {LEASED, RUNNING}}

\* lease_next_job running its second SELECT whether or not the first found
\* a row
lease_candidates_steals_beside_pending(js, t) ==
    pending_first(js) \cup expired_leases(js, t)

\* the rows lease_next_job may bind to pending_job; {} when it returns None
lease_candidates(js, t) ==
    IF pending_first(js) # {} THEN pending_first(js) ELSE expired_leases(js, t)

\* lease_next_job stamping started_at on the first attempt only
claim_job_starts_first_attempt(js, j, worker_id, t) ==
    [js EXCEPT ![j] =
        [@ EXCEPT !.state = LEASED,
                  !.worker_id = worker_id,
                  !.lease_until = t + LEASE_DURATION_SECONDS,
                  !.attempts = @ + 1,
                  !.started_at = IF js[j].attempts = 0 THEN t ELSE @]]

\* the assignments of lease_next_job to the row it selected
claim_job(js, j, worker_id, t) ==
    [js EXCEPT ![j] =
        [@ EXCEPT !.state = LEASED,
                  !.worker_id = worker_id,
                  !.lease_until = t + LEASE_DURATION_SECONDS,
                  !.attempts = @ + 1,
                  !.started_at = IF @ = NULL THEN t ELSE @]]

(* jobs.update_lease; progress may be None (NULL), and is then kept *)
update_lease(js, job_id, worker_id, progress, t) ==
    IF job_id \notin DOMAIN js \/ js[job_id].worker_id # worker_id
    THEN js
    ELSE [js EXCEPT ![job_id] =
            [@ EXCEPT !.state = RUNNING,
                      !.lease_until = t + LEASE_DURATION_SECONDS,
                      !.progress = IF progress = NULL THEN @ ELSE progress]]

(* api.job_progress: update_lease, then the tails are written in a second  *)
(* session to whatever row has that id.                                    *)
job_progress(js, job_id, worker_id, progress, stderr_tail, stdout_tail, t) ==
    LET renewed == update_lease(js, job_id, worker_id, progress, t)
    IN  IF job_id \in DOMAIN renewed
        THEN [renewed EXCEPT ![job_id] =
                [@ EXCEPT !.stderr_tail = stderr_tail,
                          !.stdout_tail = stdout_tail]]
        ELSE renewed

\* complete_job without the ownership test
complete_job_any_worker(js, job_id, worker_id, success, return_code, stderr_tail, stdout_tail, error_message, t) ==
    IF job_id \notin DOMAIN js
    THEN js
    ELSE [js EXCEPT ![job_id] =
            [@ EXCEPT !.state = IF success THEN SUCCEEDED ELSE FAILED,
                      !.finished_at = t,
                      !.return_code = return_code,
                      !.progress = IF success THEN 100 ELSE @,
                      !.stderr_tail = stderr_tail,
                      !.stdout_tail = stdout_tail,
                      !.error_message = error_message,
                      !.lease_until = NULL]]

\* complete_job leaving progress as the last report set it
complete_job_keeps_progress(js, job_id, worker_id, success, return_code, stderr_tail, stdout_tail, error_message, t) ==
    IF job_id \notin DOMAIN js \/ js[job_id].worker_id # worker_id
    THEN js
    ELSE [js EXCEPT ![job_id] =
            [@ EXCEPT !.state = IF success THEN SUCCEEDED ELSE FAILED,
                      !.finished_at = t,
                      !.return_code = return_code,
                      !.stderr_tail = stderr_tail,
                      !.stdout_tail = stdout_tail,
                      !.error_message = error_message,
                      !.lease_until = NULL]]

(* jobs.complete_job *)
complete_job(js, job_id, worker_id, success, return_code, stderr_tail, stdout_tail, error_message, t) ==
    IF job_id \notin DOMAIN js \/ js[job_id].worker_id # worker_id
    THEN js
    ELSE [js EXCEPT ![job_id] =
            [@ EXCEPT !.state = IF success THEN SUCCEEDED ELSE FAILED,
                      !.finished_at = t,
                      !.return_code = return_code,
                      !.progress = IF success THEN 100 ELSE @,
                      !.stderr_tail = stderr_tail,
                      !.stdout_tail = stdout_tail,
                      !.error_message = error_message,
                      !.lease_until = NULL]]

\* expire_leases clearing the lease but leaving the state as it was
expire_leases_keeps_state(js, t) ==
    [j \in DOMAIN js |->
        IF j \in expired_leases(js, t)
        THEN [js[j] EXCEPT !.worker_id = NONE, !.lease_until = NULL]
        ELSE js[j]]

\* expire_leases that selects the LEASED rows only
expire_leases_leased_only(js, t) ==
    [j \in DOMAIN js |->
        IF j \in expired_leases(js, t) /\ js[j].state = LEASED
        THEN [js[j] EXCEPT !.state = PENDING,
                           !.worker_id = NONE,
                           !.lease_until = NULL]
        ELSE js[j]]

(* background.expire_leases *)
expire_leases(js, t) ==
    [j \in DOMAIN js |->
        IF j \in expired_leases(js, t)
        THEN [js[j] EXCEPT !.state = PENDING,
                           !.worker_id = NONE,
                           !.lease_until = NULL]
        ELSE js[j]]

\* a requeue that also starts the attempts counter afresh
requeued_resets_attempts(row) ==
    [row EXCEPT !.state = PENDING,
                !.progress = 0,
                !.worker_id = NONE,
                !.lease_until = NULL,
                !.started_at = NULL,
                !.finished_at = NULL,
                !.return_code = NULL,
                !.stderr_tail = NONE,
                !.stdout_tail = NONE,
                !.error_message = NONE,
                !.attempts = 0]

\* the transient fields reset_failed_jobs and release_jobs_for_worker clear
requeued(row) ==
    [row EXCEPT !.state = PENDING,
                !.progress = 0,
                !.worker_id = NONE,
                !.lease_until = NULL,
                !.started_at = NULL,
                !.finished_at = NULL,
                !.return_code = NULL,
                !.stderr_tail = NONE,
                !.stdout_tail = NONE,
                !.error_message = NONE]

\* reset_failed_jobs that leaves the owner and the result of the failed run
reset_failed_jobs_keeps_result(js) ==
    [j \in DOMAIN js |->
        IF js[j].state = FAILED
        THEN [js[j] EXCEPT !.state = PENDING, !.progress = 0, !.lease_until = NULL]
        ELSE js[j]]

\* jobs.reset_failed_jobs, the value it returns: len(jobs)
reset_failed_count(js) == Cardinality({j \in DOMAIN js : js[j].state = FAILED})

(* jobs.reset_failed_jobs *)
reset_failed_jobs(js) ==
    [j \in DOMAIN js |-> IF js[j].state = FAILED THEN requeued(js[j]) ELSE js[j]]

\* release_jobs_for_worker without the filter on the state
release_jobs_for_worker_any_state(js, worker_id) ==
    [j \in DOMAIN js |->
        IF js[j].worker_id = worker_id THEN requeued(js[j]) ELSE js[j]]

(* jobs.release_jobs_for_worker *)
release_jobs_for_worker(js, worker_id) ==
    [j \in DOMAIN js |->
        IF js[j].worker_id = worker_id /\ js[j].state \in {LEASED, RUNNING}
        THEN requeued(js[j])
        ELSE js[j]]

(* jobs.delete_succeeded_jobs, jobs.delete_all_jobs, jobs.delete_jobs *)
delete_succeeded_jobs(js) == Delete(js, {j \in DOMAIN js : js[j].state = SUCCEEDED})
delete_all_jobs(js) == Delete(js, DOMAIN js)
delete_jobs(js, job_ids) == Delete(js, job_ids)

-----------------------------------------------------------------------------
(* The state machine. *)

Op(name, job, worker) == [op |-> name, job |-> job, worker |-> worker]

\* the lease history lives and dies with the row: an id that is free, or
\* that a new row takes, starts from the empty history
NoLeases == [leases |-> 0, stolen_from |-> NONE]

HistoryOf(before, after, h) ==
    [j \in DOMAIN h |-> IF j \in DOMAIN after /\ j \in DOMAIN before THEN h[j] ELSE NoLeases]

\* models.LeaseResponse with its defaults (the fields that describe the job
\* are all filled from the row whose id is job_id)
LeaseResponse(accept_leases) ==
    [status_code |-> 200, job_id |-> NULL, accept_leases |-> accept_leases,
     action |-> NONE]

\* the answer to a request whose handler raised: no LeaseResponse is sent
InternalServerError == [LeaseResponse(FALSE) EXCEPT !.status_code = 500]

\* profiles.PROFILES, the keys: the profiles build_profile_command knows
PROFILES == {"prores_proxy_1280", "dji_drone_prores_standard"}

\* no Worker row, the queue not paused, no WorkerClient running
NoMaster ==
    /\ workers = <<>>
    /\ paused = FALSE
    /\ agent = <<>>
    /\ gui = <<>>

Init ==
    /\ jobs = <<>>
    /\ now = 0
    /\ history = [j \in JobIds |-> NoLeases]
    /\ last = Op("init", 0, NONE)
    /\ NoMaster

\* the store becomes js, by an operation that hands out no lease
Store(js) ==
    /\ jobs' = js
    /\ history' = HistoryOf(jobs, js, history)
    /\ UNCHANGED <<now, others>>

EnqueueFolder ==
    \E walk \in Folders, profile \in Profiles, on_disk \in DiskStates :
        LET js == enqueue_folder(jobs, walk, profile, on_disk, now)
        IN  /\ DOMAIN js \subseteq JobIds
            /\ last' = Op("enqueue_folder", 0, NONE)
            /\ Store(js)

LeaseNextJob(w) ==
    IF lease_candidates(jobs, now) = {}
    THEN /\ last' = Op("lease_next_job", 0, w)
         /\ Store(jobs)
    ELSE \E j \in lease_candidates(jobs, now) :
            /\ jobs[j].attempts < MaxAttempts
            /\ last' = Op("lease_next_job", j, w)
            /\ jobs' = claim_job(jobs, j, w, now)
            /\ history' = [history EXCEPT ![j] =
                              [leases |-> @.leases + 1,
                               stolen_from |-> IF jobs[j].state = PENDING
                                               THEN NONE
                                               ELSE jobs[j].worker_id]]
            /\ UNCHANGED <<now, others>>

JobProgress(j, w) ==
    \E progress \in ProgressValues, tails \in TailPairs :
        /\ last' = Op("job_progress", j, w)
        /\ Store(job_progress(jobs, j, w, progress, tails[1], tails[2], now))

CompleteJob(j, w) ==
    \E report \in Reports, tails \in TailPairs :
        /\ last' = Op("complete_job", j, w)
        /\ Store(complete_job(jobs, j, w, report[1], report[2],
                              tails[1], tails[2], report[3], now))

ExpireLeases ==
    /\ last' = Op("expire_leases", 0, NONE)
    /\ Store(expire_leases(jobs, now))

ReleaseJobsForWorker(w) ==
    /\ last' = Op("release_jobs_for_worker", 0, w)
    /\ Store(release_jobs_for_worker(jobs, w))

ResetFailedJobs ==
    /\ last' = Op("reset_failed_jobs", reset_failed_count(jobs), NONE)
    /\ Store(reset_failed_jobs(jobs))

DeleteSucceededJobs ==
    /\ last' = Op("delete_succeeded_jobs", 0, NONE)
    /\ Store(delete_succeeded_jobs(jobs))

DeleteAllJobs ==
    /\ last' = Op("delete_all_jobs", 0, NONE)
    /\ Store(delete_all_jobs(jobs))

DeleteJobs ==
    \E job_ids \in SUBSET JobIds :
        /\ job_ids # {}
        /\ last' = Op("delete_jobs", 0, NONE)
        /\ Store(delete_jobs(jobs, job_ids))

Tick ==
    /\ now < MaxTime
    /\ now' = now + 1
    /\ UNCHANGED <<jobs, history, last, others>>

Next ==
    \/ EnqueueFolder
    \/ \E w \in WorkerIds : LeaseNextJob(w)
    \/ \E j \in JobIds, w \in WorkerIds : JobProgress(j, w)
    \/ \E j \in JobIds, w \in WorkerIds : CompleteJob(j, w)
    \/ ExpireLeases
    \/ \E w \in WorkerIds : ReleaseJobsForWorker(w)
    \/ ResetFailedJobs
    \/ DeleteSucceededJobs
    \/ DeleteAllJobs
    \/ DeleteJobs
    \/ Tick

Spec == Init /\ [][Next]_vars

-----------------------------------------------------------------------------
(* The queue with several jobs: a folder that gains files between enqueues, *)
(* the workers asking for leases one after another, and the lease sweeper.  *)

QueueJobIds == {1, 2, 3}
\* the walks of one root as files are added to it; os.walk lists a directory
\* in no particular order
QueueFolders ==
    {<<"a.mov">>, <<"a.mov", "b.mov">>, <<"b.mov", "a.mov">>,
     <<"a.mov", "b.mov", "c.mov">>}

QueueInit ==
    /\ jobs = <<>>
    /\ now = 0
    /\ history = [j \in QueueJobIds |-> NoLeases]
    /\ last = Op("init", 0, NONE)
    /\ NoMaster

QueueEnqueueFolder ==
    \E walk \in QueueFolders, profile \in Profiles :
        LET js == enqueue_folder(jobs, walk, profile, {}, now)
        IN  /\ DOMAIN js \subseteq QueueJobIds
            /\ last' = Op("enqueue_folder", 0, NONE)
            /\ Store(js)

\* a folder of two files, and the ids of its jobs
OfflineJobIds == {1, 2}
OfflineFolders == {<<"a.mov", "b.mov">>}

\* the store with the two jobs of one folder, which fail or succeed and are
\* reset by the operator, all at one time of the clock
ResetEnqueueFolder ==
    \E walk \in OfflineFolders, profile \in Profiles :
        LET js == enqueue_folder(jobs, walk, profile, {}, now)
        IN  /\ DOMAIN js \subseteq OfflineJobIds
            /\ last' = Op("enqueue_folder", 0, NONE)
            /\ Store(js)

ResetNext ==
    \/ ResetEnqueueFolder
    \/ \E w \in WorkerIds : LeaseNextJob(w)
    \/ \E j \in OfflineJobIds, w \in WorkerIds : CompleteJob(j, w)
    \/ ResetFailedJobs

SpecReset == QueueInit /\ [][ResetNext]_vars

QueueNext ==
    \/ QueueEnqueueFolder
    \/ \E w \in WorkerIds : LeaseNextJob(w)
    \/ ExpireLeases
    \/ Tick

SpecQueue == QueueInit /\ [][QueueNext]_vars

-----------------------------------------------------------------------------
(* The Worker table (models.Worker) and the operations of src/ffarm/workers.py. *)
(* name and base_url are rewritten by every upsert with what the request    *)
(* carries and are read by nothing; they are left out of the row.           *)

HEARTBEAT_TIMEOUT_SECONDS == 1

ONLINE == "ONLINE"
STOPPING == "STOPPING"
FORCE_STOPPING == "FORCE_STOPPING"
STOPPED == "STOPPED"
OFFLINE == "OFFLINE"

WorkerStatus == {ONLINE, STOPPING, FORCE_STOPPING, STOPPED, OFFLINE}

Worker(t) ==
    [ last_seen      |-> t,
      status         |-> ONLINE,
      running_job_id |-> NULL,
      accept_leases  |-> TRUE ]

(* workers.upsert_worker; the row it returns is ws'[worker_id] *)
upsert_worker(ws, worker_id, t) ==
    IF worker_id \notin DOMAIN ws
    THEN [w \in DOMAIN ws \cup {worker_id} |->
             IF w = worker_id THEN Worker(t) ELSE ws[w]]
    ELSE [ws EXCEPT ![worker_id] =
             [@ EXCEPT !.status = IF @ = OFFLINE THEN ONLINE ELSE @,
                       !.last_seen = t]]

(* workers.update_worker_state: setattr for every field that is passed *)
update_worker_state(ws, worker_id, fields) ==
    IF worker_id \notin DOMAIN ws
    THEN ws
    ELSE [ws EXCEPT ![worker_id] =
             [key \in DOMAIN @ |->
                 IF key \in DOMAIN fields THEN fields[key] ELSE @[key]]]

(* workers.stop_worker *)
stop_worker(ws, worker_id, force) ==
    update_worker_state(ws, worker_id,
        [status |-> IF force THEN FORCE_STOPPING ELSE STOPPING,
         accept_leases |-> FALSE])

\* resume_worker that leaves the status as it is
resume_worker_keeps_status(ws, worker_id) ==
    update_worker_state(ws, worker_id, [accept_leases |-> TRUE])

(* workers.resume_worker *)
resume_worker(ws, worker_id) ==
    update_worker_state(ws, worker_id, [status |-> ONLINE, accept_leases |-> TRUE])

(* workers.update_worker_state, lines 45-50, for a session that another     *)
(* thread's commit falls into: the UPDATE of the commit sets the columns     *)
(* whose value differs from the one session.get loaded, and finds no row     *)
(* when the row was deleted meanwhile                                        *)
commit_worker_state(ws, worker_id, loaded, fields) ==
    IF worker_id \notin DOMAIN ws THEN ws
    ELSE [ws EXCEPT ![worker_id] =
            [key \in DOMAIN @ |->
                IF key \in DOMAIN fields /\ fields[key] # loaded[key]
                THEN fields[key] ELSE @[key]]]

(* workers.delete_offline_workers *)
delete_offline_workers(ws) ==
    [w \in {v \in DOMAIN ws : ws[v].status # OFFLINE} |-> ws[w]]

\* the worker sweeper with twice the timeout
stale_workers_after_two_timeouts(ws, t) ==
    {w \in DOMAIN ws : /\ ws[w].last_seen # NULL
                       /\ ws[w].last_seen < t - 2 * HEARTBEAT_TIMEOUT_SECONDS
                       /\ ws[w].status # OFFLINE}

\* the rows the worker sweeper selects
stale_workers(ws, t) ==
    {w \in DOMAIN ws : /\ ws[w].last_seen # NULL
                       /\ ws[w].last_seen < t - HEARTBEAT_TIMEOUT_SECONDS
                       /\ ws[w].status # OFFLINE}

(* background.mark_offline_workers, the Worker rows *)
mark_offline_workers(ws, t) ==
    [w \in DOMAIN ws |->
        IF w \in stale_workers(ws, t)
        THEN [ws[w] EXCEPT !.status = OFFLINE,
                           !.accept_leases = FALSE,
                           !.running_job_id = NULL]
        ELSE ws[w]]

(* background.mark_offline_workers, the jobs: release_jobs_for_worker for   *)
(* every worker that was marked                                             *)
RECURSIVE release_all(_, _)
release_all(js, released_workers) ==
    IF released_workers = {} THEN js
    ELSE LET w == CHOOSE v \in released_workers : TRUE
         IN  release_all(release_jobs_for_worker(js, w), released_workers \ {w})

-----------------------------------------------------------------------------
(* The master with a worker agent: the handlers of src/ffarm/master/api.py, *)
(* the two sweepers, the operator at the GUI, and one WorkerClient          *)
(* (src/ffarm/worker/client.py) with its lease loop and its heartbeat loop. *)
(* A request and the handler that serves it are one step; the agent reads   *)
(* the reply in a later step of the thread that sent the request, so the    *)
(* other thread, the operator and the sweepers may act in between.  The     *)
(* record of the job store's calls (history, last) is not kept here: a      *)
(* request is told by the step of the agent that sends it.                  *)

Agents == {"w1"}

\* WorkerClient.__init__; loop and hb are the positions of the lease loop
\* and of the heartbeat loop, lease_reply is the reply to the latest lease
\* request (read or not), hb_reply the heartbeat reply that is not read yet;
\* stop is _stop_event, process the encoder subprocess ("none", "alive" or
\* "exited" with return_code), active_process whether _active_process holds it
WorkerClient ==
    [ status       |-> ONLINE,
      accept_leases |-> TRUE,
      current_job  |-> NULL,
      force_stop   |-> FALSE,
      loop         |-> "poll",
      lease_reply  |-> LeaseResponse(TRUE),
      hb           |-> "wait",
      hb_reply     |-> [accept_leases |-> TRUE, status |-> ONLINE],
      stop         |-> FALSE,
      process      |-> "none",
      active_process |-> FALSE,
      return_code  |-> 0 ]

\* what the encoder run of the agent may report: (return_code, tails)
EncoderRuns == {<<0, <<"err", "out">> >>, <<1, <<"err", "out">> >>}
AgentProgress == {50}

MasterInit ==
    /\ jobs = <<>>
    /\ now = 0
    /\ history = [j \in JobIds |-> NoLeases]
    /\ last = Op("init", 0, NONE)
    /\ workers = <<>>
    /\ paused = FALSE
    /\ agent = [w \in Agents |-> WorkerClient]
    /\ gui = <<>>

\* api.lease_job, lines 46-49: the action the worker row's status calls for
lease_action(status) ==
    IF status = FORCE_STOPPING THEN "force_stop"
    ELSE IF status = STOPPING THEN "stop"
    ELSE NONE

\* api.lease_job, lines 45 and 50-51: accept_leases of the response
lease_accepts(worker, is_paused) ==
    IF is_paused THEN FALSE ELSE worker.accept_leases

\* api.lease_job reaching lease_next_job although the queue is paused
lease_proceeds_while_paused(worker, action, is_paused) ==
    ~(~worker.accept_leases \/ action = "force_stop")

\* api.lease_job reaching lease_next_job although the action is force_stop
lease_proceeds_despite_force_stop(worker, action, is_paused) ==
    /\ ~is_paused
    /\ worker.accept_leases

\* api.lease_job, lines 50-54: whether the handler reaches lease_next_job
lease_proceeds(worker, action, is_paused) ==
    /\ ~is_paused
    /\ ~(~worker.accept_leases \/ action = "force_stop")

(* api.lease_job, the handler of POST /jobs/lease, returning reply *)
lease_job(w, reply) ==
    LET ws == upsert_worker(workers, w, now)
        worker == ws[w]
        action == lease_action(worker.status)
        base == [LeaseResponse(lease_accepts(worker, paused)) EXCEPT
                    !.action = action]
    IN  /\ workers' = ws
        /\ UNCHANGED <<now, paused, history, last, gui>>
        /\ IF ~lease_proceeds(worker, action, paused)
              \/ lease_candidates(jobs, now) = {}
           THEN /\ reply = base
                /\ jobs' = jobs
           ELSE \E j \in lease_candidates(jobs, now) :
                   /\ jobs[j].attempts < MaxAttempts
                   /\ jobs' = claim_job(jobs, j, w, now)
                   /\ reply = IF jobs[j].profile \in PROFILES
                              THEN [base EXCEPT !.job_id = j]
                              ELSE InternalServerError

(* api.job_complete, the handler of POST /jobs/{job_id}/complete *)
job_complete(job_id, w, success, return_code, stderr_tail, stdout_tail, error_message) ==
    /\ jobs' = complete_job(jobs, job_id, w, success, return_code,
                            stderr_tail, stdout_tail, error_message, now)
    /\ workers' = update_worker_state(workers, w,
                      [running_job_id |-> NULL, status |-> ONLINE])
    /\ UNCHANGED <<now, paused, history, last, gui>>

(* api.heartbeat, the handler of POST /workers/heartbeat: the reply is built *)
(* from the row upsert_worker returned, before the body is written to it     *)
heartbeat_reply(ws, w, t) ==
    LET worker == upsert_worker(ws, w, t)[w]
    IN  [accept_leases |-> worker.accept_leases, status |-> worker.status]

heartbeat(ws, w, status, running_job_id, t) ==
    update_worker_state(upsert_worker(ws, w, t), w,
        [last_seen |-> t, status |-> status, running_job_id |-> running_job_id])

\* _request_job that never returns the job of the reply
read_lease_reply_ignores_job(a, payload) ==
    IF payload.status_code # 200
    THEN [a EXCEPT !.loop = "poll"]
    ELSE [a EXCEPT !.accept_leases = payload.accept_leases, !.loop = "poll"]

(* WorkerClient._request_job, lines 161-181, and the first two assignments  *)
(* of _execute_job for a reply that carries a job                           *)
read_lease_reply(a, payload) ==
    LET read ==
            IF payload.status_code # 200
            THEN [a EXCEPT !.loop = "poll"]
            ELSE IF payload.action = "force_stop"
            THEN [a EXCEPT !.status = FORCE_STOPPING, !.force_stop = TRUE,
                           !.loop = "poll"]
            ELSE IF payload.action = "stop"
            THEN [a EXCEPT !.status = STOPPING, !.accept_leases = FALSE,
                           !.loop = "poll"]
            ELSE IF payload.job_id = NULL
            THEN [a EXCEPT !.accept_leases = payload.accept_leases,
                           !.loop = "poll"]
            ELSE [a EXCEPT !.accept_leases = payload.accept_leases,
                           !.current_job = payload.job_id,
                           !.status = ONLINE,
                           !.loop = "run"]
    IN  read

\* _send_heartbeat that does not set the force-stop event
read_heartbeat_reply_without_event(a, data) ==
    [a EXCEPT !.accept_leases = IF data.status = STOPPING THEN FALSE
                                ELSE data.accept_leases,
              !.status = IF data.status \in {FORCE_STOPPING, STOPPING}
                         THEN data.status
                         ELSE IF a.current_job = NULL THEN ONLINE ELSE @,
              !.hb = "wait", !.hb_reply = WorkerClient.hb_reply]

\* _send_heartbeat reading only the status of the reply
read_heartbeat_reply_status_only(a, data) ==
    [a EXCEPT !.status = IF data.status \in {FORCE_STOPPING, STOPPING}
                         THEN data.status
                         ELSE IF a.current_job = NULL THEN ONLINE ELSE @,
              !.force_stop = @ \/ data.status = FORCE_STOPPING,
              !.hb = "wait", !.hb_reply = WorkerClient.hb_reply]

(* WorkerClient._send_heartbeat, lines 194-205 *)
read_heartbeat_reply(a, data) ==
    LET read ==
            IF data.status = FORCE_STOPPING
            THEN [a EXCEPT !.accept_leases = data.accept_leases,
                           !.status = FORCE_STOPPING, !.force_stop = TRUE]
            ELSE IF data.status = STOPPING
            THEN [a EXCEPT !.status = STOPPING, !.accept_leases = FALSE]
            ELSE [a EXCEPT !.accept_leases = data.accept_leases,
                           !.status = IF a.current_job = NULL THEN ONLINE ELSE @]
    IN  [read EXCEPT !.hb = "wait", !.hb_reply = WorkerClient.hb_reply]

\* a step of the agent that sends nothing
AgentOnly == UNCHANGED <<jobs, now, history, last, workers, paused, gui>>

\* the test of _loop that lets a force-stopping agent through
may_request_job_while_force_stopping(a) ==
    /\ a.current_job = NULL
    /\ a.accept_leases

(* WorkerClient._loop, line 136: the test before _request_job *)
may_request_job(a) ==
    /\ a.current_job = NULL
    /\ a.accept_leases
    /\ ~a.force_stop

(* WorkerClient._loop, lines 136-137, and the request of _request_job *)
AgentRequestJob(w) ==
    /\ agent[w].loop = "poll"
    /\ ~agent[w].stop
    /\ may_request_job(agent[w])
    /\ \E reply \in [status_code : {200, 500}, job_id : JobIds \cup {NULL},
                     accept_leases : BOOLEAN,
                     action : {NONE, "stop", "force_stop"}] :
          /\ lease_job(w, reply)
          /\ agent' = [agent EXCEPT ![w].loop = "lease_sent",
                                     ![w].lease_reply = reply]

AgentReadLease(w) ==
    /\ agent[w].loop = "lease_sent"
    /\ agent' = [agent EXCEPT ![w] = read_lease_reply(@, @.lease_reply)]
    /\ AgentOnly

(* WorkerClient._send_progress while the encoder runs *)
AgentSendProgress(w) ==
    /\ agent[w].loop = "run"
    /\ \E progress \in AgentProgress, run \in EncoderRuns :
          jobs' = job_progress(jobs, agent[w].current_job, w, progress,
                               run[2][1], run[2][2], now)
    /\ UNCHANGED <<now, history, last, workers, paused, agent, gui>>

(* WorkerClient._execute_job, lines 286-294: the encoder has exited *)
AgentSendCompletion(w) ==
    /\ agent[w].loop = "run"
    /\ \E run \in EncoderRuns :
          LET return_code == run[1]
              success == return_code = 0 /\ ~agent[w].force_stop
          IN  /\ job_complete(agent[w].current_job, w, success, return_code,
                              run[2][1], run[2][2],
                              IF success THEN NONE ELSE "FFmpeg failed")
              /\ agent' = [agent EXCEPT
                    ![w].status = IF agent[w].force_stop /\ return_code # 0
                                  THEN FORCE_STOPPING ELSE @,
                    ![w].loop = "reported"]

(* WorkerClient._execute_job, lines 295-297 *)
AgentFinishJob(w) ==
    /\ agent[w].loop = "reported"
    /\ agent' = [agent EXCEPT
          ![w].current_job = NULL,
          ![w].force_stop = FALSE,
          ![w].status = IF ~agent[w].accept_leases THEN STOPPED ELSE ONLINE,
          ![w].loop = "poll"]
    /\ AgentOnly

(* WorkerClient._heartbeat_loop sending, and api.heartbeat serving it *)
AgentSendHeartbeat(w) ==
    /\ agent[w].hb = "wait"
    /\ ~agent[w].stop
    /\ workers' = heartbeat(workers, w, agent[w].status, agent[w].current_job, now)
    /\ agent' = [agent EXCEPT ![w].hb = "sent",
                               ![w].hb_reply = heartbeat_reply(workers, w, now)]
    /\ UNCHANGED <<jobs, now, history, last, paused, gui>>

AgentReadHeartbeat(w) ==
    /\ agent[w].hb = "sent"
    /\ agent' = [agent EXCEPT ![w] = read_heartbeat_reply(@, @.hb_reply)]
    /\ AgentOnly

\* the operator's steps on the Worker table and on the pause flag
WorkersOnly(ws) ==
    /\ workers' = ws
    /\ UNCHANGED <<jobs, now, history, last, paused, agent, gui>>

RequestStop(w) == WorkersOnly(stop_worker(workers, w, FALSE))

RequestForceStop(w) == WorkersOnly(stop_worker(workers, w, TRUE))

RequestResume(w) == WorkersOnly(resume_worker(workers, w))

ClearOfflineWorkers == WorkersOnly(delete_offline_workers(workers))

SetPaused(value) ==
    /\ paused' = value
    /\ UNCHANGED <<jobs, now, history, last, workers, agent, gui>>

\* the steps of the job store and of the clock
JobsOnly(js) ==
    /\ jobs' = js
    /\ UNCHANGED <<now, history, last, workers, paused, agent, gui>>

MasterEnqueueFolder ==
    \E walk \in Folders, profile \in Profiles :
        LET js == enqueue_folder(jobs, walk, profile, {}, now)
        IN  DOMAIN js \subseteq JobIds /\ JobsOnly(js)

(* api.clear_all_jobs *)
MasterClearAllJobs == JobsOnly(delete_all_jobs(jobs))

MasterExpireLeases == JobsOnly(expire_leases(jobs, now))

(* background.mark_offline_workers *)
MarkOfflineWorkers ==
    /\ workers' = mark_offline_workers(workers, now)
    /\ jobs' = release_all(jobs, stale_workers(workers, now))
    /\ UNCHANGED <<now, history, last, paused, agent, gui>>

MasterTick ==
    /\ now < MaxTime
    /\ now' = now + 1
    /\ UNCHANGED <<jobs, history, last, workers, paused, agent, gui>>

AgentNext(w) ==
    \/ AgentRequestJob(w)
    \/ AgentReadLease(w)
    \/ AgentSendProgress(w)
    \/ AgentSendCompletion(w)
    \/ AgentFinishJob(w)
    \/ AgentSendHeartbeat(w)
    \/ AgentReadHeartbeat(w)

MasterNext ==
    \/ \E w \in Agents : AgentNext(w)
    \/ \E w \in Agents : RequestStop(w)
    \/ \E w \in Agents : RequestForceStop(w)
    \/ \E w \in Agents : RequestResume(w)
    \/ ClearOfflineWorkers
    \/ \E value \in BOOLEAN : SetPaused(value)
    \/ MasterEnqueueFolder
    \/ MasterClearAllJobs

\* the requests, with the clock standing still
SpecMaster == MasterInit /\ [][MasterNext]_vars

SweepNext ==
    \/ \E w \in Agents : AgentNext(w)
    \/ \E w \in Agents : RequestStop(w)
    \/ \E w \in Agents : RequestForceStop(w)
    \/ \E w \in Agents : RequestResume(w)
    \/ ClearOfflineWorkers
    \/ MasterEnqueueFolder
    \/ MarkOfflineWorkers
    \/ MasterExpireLeases
    \/ MasterTick

\* the requests without the pause flag, the clock and the two sweepers
SpecSweep == MasterInit /\ [][SweepNext]_vars

(* WorkerClient._loop: the thread of the lease loop, which runs a job it was *)
(* handed to its end and otherwise polls every WORKER_POLL_INTERVAL          *)
AgentLoop(w) ==
    \/ AgentRequestJob(w)
    \/ AgentReadLease(w)
    \/ AgentSendProgress(w)
    \/ AgentSendCompletion(w)
    \/ AgentFinishJob(w)

(* WorkerClient._heartbeat_loop: the thread that sends a heartbeat every *)
(* interval until the agent is stopped                                    *)
AgentHeartbeat(w) == AgentSendHeartbeat(w) \/ AgentReadHeartbeat(w)

LiveNext ==
    \/ \E w \in Agents : AgentLoop(w)
    \/ \E w \in Agents : AgentHeartbeat(w)
    \/ \E value \in BOOLEAN : SetPaused(value)
    \/ MasterEnqueueFolder
    \/ MasterClearAllJobs

\* a worker that stays alive and is never stopped: both of its threads keep
\* taking their steps, and its heartbeats keep it from being marked offline
SpecLive ==
    /\ MasterInit
    /\ [][LiveNext]_vars
    /\ \A w \in Agents : WF_vars(AgentLoop(w)) /\ WF_vars(AgentHeartbeat(w))

(* gui.soft_stop_worker, gui.hard_stop_worker and gui.resume_worker call     *)
(* workers.stop_worker and workers.resume_worker on the GUI thread, beside   *)
(* the server thread of MasterServer: update_worker_state up to session.get  *)
GuiLoad(w, fields) ==
    /\ gui = <<>>
    /\ w \in DOMAIN workers
    /\ gui' = <<[worker_id |-> w, loaded |-> workers[w], fields |-> fields]>>
    /\ UNCHANGED <<jobs, now, history, last, workers, paused, agent>>

GuiStopWorker(w, force) ==
    GuiLoad(w, [status |-> IF force THEN FORCE_STOPPING ELSE STOPPING,
                accept_leases |-> FALSE])

GuiResumeWorker(w) == GuiLoad(w, [status |-> ONLINE, accept_leases |-> TRUE])

(* update_worker_state from setattr to session.commit, on the GUI thread *)
GuiCommit ==
    /\ gui # <<>>
    /\ workers' = commit_worker_state(workers, gui[1].worker_id,
                                      gui[1].loaded, gui[1].fields)
    /\ gui' = <<>>
    /\ UNCHANGED <<jobs, now, history, last, paused, agent>>

OperatorNext ==
    \/ \E w \in Agents : AgentHeartbeat(w)
    \/ \E w \in Agents, force \in BOOLEAN : GuiStopWorker(w, force)
    \/ \E w \in Agents : GuiResumeWorker(w)
    \/ GuiCommit
    \/ ClearOfflineWorkers
    \/ MarkOfflineWorkers
    \/ MasterTick

\* the operator's thread beside the server thread: heartbeats and the worker
\* sweeper are served one at a time, the operator's calls fall between them
SpecOperator == MasterInit /\ [][OperatorNext]_vars

(* api.heartbeat, line 104: the first store transaction of the handler, *)
(* whose row becomes the reply; the agent's lease loop is idle           *)
HeartbeatUpsert(w) ==
    /\ agent[w].hb = "wait"
    /\ workers' = upsert_worker(workers, w, now)
    /\ agent' = [agent EXCEPT ![w].hb = "upserted",
                               ![w].hb_reply = heartbeat_reply(workers, w, now)]
    /\ UNCHANGED <<jobs, now, history, last, paused, gui>>

(* api.heartbeat, lines 105-114: the second store transaction, writing the *)
(* body of the request, and the return                                     *)
HeartbeatUpdate(w) ==
    /\ agent[w].hb = "upserted"
    /\ workers' = update_worker_state(workers, w,
                      [last_seen |-> now, status |-> agent[w].status,
                       running_job_id |-> agent[w].current_job])
    /\ agent' = [agent EXCEPT ![w].hb = "sent"]
    /\ UNCHANGED <<jobs, now, history, last, paused, gui>>

RaceNext ==
    \/ \E w \in Agents : HeartbeatUpsert(w)
    \/ \E w \in Agents : HeartbeatUpdate(w)
    \/ \E w \in Agents : AgentReadHeartbeat(w)
    \/ \E w \in Agents, force \in BOOLEAN : GuiStopWorker(w, force)
    \/ GuiCommit
    \/ MasterTick

\* the operator's stop calls beside the two transactions of a heartbeat
SpecRace == MasterInit /\ [][RaceNext]_vars

(* WorkerClient._watch_force_stop and _terminate_process: the force-stop *)
(* event is set, the encoder is terminated and _execute_job reports it   *)
EncoderKilled(w) == agent[w].force_stop /\ AgentSendCompletion(w)

\* POST /workers/{worker_id}/force_stop sent while the worker runs a job
ForceStopWhileRunning(w) == agent[w].loop = "run" /\ RequestForceStop(w)

ForceNext ==
    \/ \E w \in Agents : AgentLoop(w)
    \/ \E w \in Agents : AgentHeartbeat(w)
    \/ \E w \in Agents : ForceStopWhileRunning(w)
    \/ MasterEnqueueFolder

\* a worker that keeps heartbeating while its encoder runs, and an encoder
\* that is gone within the grace period once the force-stop event is set;
\* left to itself the encoder may exit at any time or run on
SpecForce ==
    /\ MasterInit
    /\ [][ForceNext]_vars
    /\ \A w \in Agents : WF_vars(AgentHeartbeat(w)) /\ WF_vars(EncoderKilled(w))

OfflineEnqueueFolder ==
    \E walk \in OfflineFolders, profile \in Profiles :
        LET js == enqueue_folder(jobs, walk, profile, {}, now)
        IN  DOMAIN js \subseteq OfflineJobIds /\ JobsOnly(js)

(* POST /jobs/lease of a worker that is told by its id alone *)
WorkerLease(w) ==
    /\ \E reply \in [status_code : {200, 500}, job_id : QueueJobIds \cup {NULL},
                     accept_leases : BOOLEAN,
                     action : {NONE, "stop", "force_stop"}] : lease_job(w, reply)
    /\ agent' = agent

(* POST /jobs/{job_id}/complete of the worker that holds the job *)
WorkerComplete(w) ==
    /\ \E j \in DOMAIN jobs, run \in EncoderRuns :
          /\ jobs[j].worker_id = w
          /\ jobs[j].state \in {LEASED, RUNNING}
          /\ job_complete(j, w, run[1] = 0, run[1], run[2][1], run[2][2],
                          IF run[1] = 0 THEN NONE ELSE "FFmpeg failed")
    /\ agent' = agent

OfflineNext ==
    \/ OfflineEnqueueFolder
    \/ \E w \in WorkerIds : WorkerLease(w)
    \/ \E w \in WorkerIds : WorkerComplete(w)
    \/ MarkOfflineWorkers
    \/ MasterTick

\* two workers that lease and complete jobs and may fall silent at any time
SpecOffline == QueueInit /\ [][OfflineNext]_vars

\* a worker process that still exists; one that is gone sends nothing
Alive(w) == agent[w].loop # "gone"

\* the machine of worker w disappears: no request of w follows
Disappear(w) ==
    /\ Alive(w)
    /\ agent' = [agent EXCEPT ![w].loop = "gone"]
    /\ UNCHANGED <<jobs, now, history, last, workers, paused, gui>>

(* POST /jobs/{job_id}/progress of the worker that holds the job *)
WorkerProgress(w) ==
    /\ \E j \in DOMAIN jobs, progress \in AgentProgress :
          /\ jobs[j].worker_id = w
          /\ jobs[j].state \in {LEASED, RUNNING}
          /\ jobs' = job_progress(jobs, j, w, progress, "err", "out", now)
    /\ UNCHANGED <<now, history, last, workers, paused, agent, gui>>

(* POST /workers/heartbeat of a worker that reports ONLINE and its job *)
WorkerHeartbeat(w) ==
    /\ \E running \in {NULL} \cup {j \in DOMAIN jobs : jobs[j].worker_id = w} :
          workers' = heartbeat(workers, w, ONLINE, running, now)
    /\ UNCHANGED <<jobs, now, history, last, paused, agent, gui>>

DisappearInit ==
    /\ jobs = <<>>
    /\ now = 0
    /\ history = [j \in JobIds |-> NoLeases]
    /\ last = Op("init", 0, NONE)
    /\ workers = <<>>
    /\ paused = FALSE
    /\ agent = [w \in WorkerIds |-> WorkerClient]
    /\ gui = <<>>

DisappearNext ==
    \/ MasterEnqueueFolder
    \/ \E w \in WorkerIds : Alive(w) /\ WorkerLease(w)
    \/ \E w \in WorkerIds : Alive(w) /\ WorkerProgress(w)
    \/ \E w \in WorkerIds : Alive(w) /\ WorkerComplete(w)
    \/ \E w \in WorkerIds : Alive(w) /\ WorkerHeartbeat(w)
    \/ \E w \in WorkerIds : Disappear(w)
    \/ MarkOfflineWorkers
    \/ MasterExpireLeases
    \/ MasterTick

\* the two sweepers are tasks of the server's loop that run again and again
\* (background.py, lines 18-33), and the clock goes on
SpecDisappear ==
    /\ DisappearInit
    /\ [][DisappearNext]_vars
    /\ WF_vars(MarkOfflineWorkers)
    /\ WF_vars(MasterTick)

ExpireNext ==
    \/ MasterEnqueueFolder
    \/ \E w \in WorkerIds : Alive(w) /\ WorkerLease(w)
    \/ \E w \in WorkerIds : Alive(w) /\ WorkerProgress(w)
    \/ \E w \in WorkerIds : Alive(w) /\ WorkerComplete(w)
    \/ \E w \in WorkerIds : Disappear(w)
    \/ MasterExpireLeases
    \/ MasterTick

\* the lease sweeper is a task of the server's loop that runs again and again
\* (background.py, lines 18-24), and the clock goes on
SpecExpire ==
    /\ DisappearInit
    /\ [][ExpireNext]_vars
    /\ WF_vars(MasterExpireLeases)
    /\ WF_vars(MasterTick)

(* POST /workers/{id}/stop or force_stop for a worker that is idle; last    *)
(* keeps the call, the status code in its job field                         *)
StopIdleWorker(w, force) ==
    /\ w \in DOMAIN workers
    /\ last.op # "resume"
    /\ agent[w].loop = "poll"
    /\ agent[w].current_job = NULL
    /\ workers' = stop_worker(workers, w, force)
    /\ last' = Op(IF force THEN "force_stop" ELSE "stop", 200, w)
    /\ UNCHANGED <<jobs, now, history, paused, agent, gui>>

(* POST /workers/{id}/resume for the worker that was stopped; the operator  *)
(* leaves the worker alone from then on                                     *)
ResumeStoppedWorker(w) ==
    /\ w \in DOMAIN workers
    /\ last.op \in {"stop", "force_stop"}
    /\ last.worker = w
    /\ workers' = resume_worker(workers, w)
    /\ last' = Op("resume", 200, w)
    /\ UNCHANGED <<jobs, now, history, paused, agent, gui>>

ResumeNext ==
    \/ \E w \in Agents : AgentLoop(w)
    \/ \E w \in Agents : AgentHeartbeat(w)
    \/ \E w \in Agents, force \in BOOLEAN : StopIdleWorker(w, force)
    \/ \E w \in Agents : ResumeStoppedWorker(w)
    \/ MasterEnqueueFolder

\* a worker that stays alive: both of its threads keep taking their steps
SpecResume ==
    /\ MasterInit
    /\ [][ResumeNext]_vars
    /\ \A w \in Agents : WF_vars(AgentLoop(w)) /\ WF_vars(AgentHeartbeat(w))

ReturnNext ==
    \/ \E w \in Agents : AgentLoop(w)
    \/ \E w \in Agents : AgentHeartbeat(w)
    \/ MasterEnqueueFolder
    \/ MarkOfflineWorkers
    \/ MasterExpireLeases
    \/ MasterTick

\* a worker whose requests may come late, so that the worker sweeper marks it
\* OFFLINE, but that stays alive: both of its threads keep taking their
\* steps; no operator acts on the worker
SpecReturn ==
    /\ MasterInit
    /\ [][ReturnNext]_vars
    /\ \A w \in Agents : WF_vars(AgentLoop(w)) /\ WF_vars(AgentHeartbeat(w))

FarmNext ==
    \/ \E w \in Agents : AgentLoop(w)
    \/ \E w \in Agents : AgentHeartbeat(w)
    \/ \E value \in BOOLEAN : SetPaused(value)
    \/ MasterEnqueueFolder
    \/ MarkOfflineWorkers
    \/ MasterExpireLeases
    \/ MasterTick

\* the farm at work: a worker that stays alive, whose encoder runs end, and
\* the two sweepers, which run again and again
SpecFarm ==
    /\ MasterInit
    /\ [][FarmNext]_vars
    /\ \A w \in Agents : WF_vars(AgentLoop(w)) /\ WF_vars(AgentHeartbeat(w))
    /\ WF_vars(MarkOfflineWorkers)
    /\ WF_vars(MasterExpireLeases)

\* a database file written under a profile registry that had a profile the
\* registry of this build does not have: its job is in the store at the start
RetiredProfileJob ==
    Job("a.mov", [dir |-> "retired", stem |-> "a", n |-> 0], "retired_profile", 0)

RetiredInit ==
    /\ jobs = <<RetiredProfileJob>>
    /\ now = 0
    /\ history = [j \in JobIds |-> NoLeases]
    /\ last = Op("init", 0, NONE)
    /\ workers = <<>>
    /\ paused = FALSE
    /\ agent = [w \in Agents |-> WorkerClient]
    /\ gui = <<>>

RetiredNext ==
    \/ \E w \in Agents : AgentRequestJob(w)
    \/ \E w \in Agents : AgentReadLease(w)
    \/ \E w \in Agents : AgentHeartbeat(w)
    \/ \E w \in Agents : RequestStop(w)
    \/ \E w \in Agents : RequestResume(w)
    \/ MarkOfflineWorkers
    \/ MasterExpireLeases
    \/ MasterTick

SpecRetired == RetiredInit /\ [][RetiredNext]_vars

\* one root folder that gains a second file with the stem of the first, and
\* the ids of its jobs
OutputJobIds == {1, 2}
OutputFolders == {<<"a.mov">>, <<"a.mov", "a.mp4">>}

\* the operator enqueues the folder; the output of the first file may or may
\* not be on the disk by then
OutputEnqueueFolder ==
    \E walk \in OutputFolders, profile \in Profiles, on_disk \in DiskStates :
        LET js == enqueue_folder(jobs, walk, profile, on_disk, now)
        IN  DOMAIN js \subseteq OutputJobIds /\ JobsOnly(js)

OutputNext ==
    \/ OutputEnqueueFolder
    \/ \E w \in WorkerIds : WorkerLease(w)
    \/ \E w \in WorkerIds : WorkerComplete(w)
    \/ MasterTick

SpecOutputs == QueueInit /\ [][OutputNext]_vars

\* one root folder with three video files, enqueued under either profile
EnqueueProfiles == {"prores_proxy_1280", "dji_drone_prores_standard"}
RootFolder == <<"a.mov", "DJI_1.mov", "DJI_1_Proxy.mov">>

\* the operator enqueues the root folder (gui.py, line 371); last keeps the
\* pair (added, skipped) the call returned in its job field and the profile
\* in its worker field
EnqueueRoot ==
    \E profile \in EnqueueProfiles :
        /\ jobs' = enqueue_folder(jobs, RootFolder, profile, {}, now)
        /\ last' = Op("enqueue_folder",
                      enqueue_folder_returns(jobs, RootFolder, profile, {}, now),
                      profile)
        /\ UNCHANGED <<now, history, workers, paused, agent, gui>>

EnqueueNext ==
    \/ EnqueueRoot
    \/ \E w \in WorkerIds : WorkerLease(w)
    \/ \E w \in WorkerIds : WorkerComplete(w)

\* the folder is enqueued again and again while workers lease and complete
\* its jobs; no job is deleted
SpecEnqueue == QueueInit /\ [][EnqueueNext]_vars

\* the Worker rows an operator's call may find
TableRows ==
    [last_seen : {0}, status : WorkerStatus, running_job_id : {NULL, 1},
     accept_leases : BOOLEAN]

(* api.request_stop, request_force_stop, request_resume: 404 when        *)
(* update_worker_state found no row and returned None, else the row (200) *)
request_status(ws, worker_id) == IF worker_id \in DOMAIN ws THEN 200 ELSE 404

TableInit ==
    /\ jobs = <<>>
    /\ now = 0
    /\ history = [j \in JobIds |-> NoLeases]
    /\ last = Op("init", 0, NONE)
    /\ workers \in UNION {[ids -> TableRows] : ids \in SUBSET WorkerIds}
    /\ paused = FALSE
    /\ agent = <<>>
    /\ gui = <<>>

\* one served request on the Worker table, recorded in last with the status
\* code of its response in the place of the job id
TableStep(name, w, ws) ==
    /\ workers' = ws
    /\ last' = Op(name, request_status(workers, w), w)
    /\ UNCHANGED <<jobs, now, history, paused, agent, gui>>

TableStop(w) == TableStep("stop", w, stop_worker(workers, w, FALSE))

TableForceStop(w) == TableStep("force_stop", w, stop_worker(workers, w, TRUE))

TableResume(w) == TableStep("resume", w, resume_worker(workers, w))

TableNext ==
    \/ \E w \in WorkerIds : TableStop(w)
    \/ \E w \in WorkerIds : TableForceStop(w)
    \/ \E w \in WorkerIds : TableResume(w)

\* the stop and resume routes on any Worker table
SpecTable == TableInit /\ [][TableNext]_vars

\* POST /workers/{worker_id}/stop sent while the worker runs a job
StopWhileRunning(w) == agent[w].loop = "run" /\ RequestStop(w)

SoftStopNext ==
    \/ \E w \in Agents : AgentNext(w)
    \/ \E w \in Agents : StopWhileRunning(w)
    \/ \E w \in Agents : RequestResume(w)
    \/ MasterEnqueueFolder
    \/ MasterClearAllJobs

\* soft stops only, each issued while the worker is running a job
SpecSoftStop == MasterInit /\ [][SoftStopNext]_vars

-----------------------------------------------------------------------------
(* The claims. *)

Active(row) == row.state \in {LEASED, RUNNING}
Terminal(row) == row.state \in {SUCCEEDED, FAILED}
\* the row is under a lease that has not expired at time t
LiveLease(row, t) == Active(row) /\ row.lease_until # NULL /\ row.lease_until >= t
\* row j exists before and after the step
Kept(j) == j \in DOMAIN jobs /\ j \in DOMAIN jobs'
\* the step is a lease_next_job call that returned row j
HandedOut(j) == Kept(j) /\ history'[j].leases > history[j].leases

\* C1: after every committed operation, every job whose state is PENDING,
\* SUCCEEDED or FAILED has worker_id = null and lease_until = null.
C1_IdleJobsUnowned ==
    \A j \in DOMAIN jobs :
        jobs[j].state \in {PENDING, SUCCEEDED, FAILED}
            => jobs[j].worker_id = NONE /\ jobs[j].lease_until = NULL

\* C2: after every committed operation, every job whose state is LEASED or
\* RUNNING has a non-null worker_id and a non-null lease_until.
C2_ActiveJobsOwned ==
    \A j \in DOMAIN jobs :
        Active(jobs[j]) => jobs[j].worker_id # NONE /\ jobs[j].lease_until # NULL

\* a job that was leased twice and renewed by its second holder
C2_Witness ==
    \E j \in DOMAIN jobs :
        /\ jobs[j].state = RUNNING
        /\ jobs[j].attempts = 2
        /\ last = Op("job_progress", j, jobs[j].worker_id)

\* C3: lease_next_job never hands out a job that is under an unexpired lease,
\* so with no lease expiring between the calls no job is returned to two
\* callers; the job it returns belongs to the caller alone.
C3_NoDoubleHandout ==
    [][\A j \in JobIds :
          HandedOut(j) => /\ ~LiveLease(jobs[j], now)
                          /\ jobs'[j].worker_id = last'.worker
                          /\ last'.op = "lease_next_job"]_vars

\* a second worker's lease_next_job call returned nothing while the only
\* job is under the first worker's unexpired lease
C3_Witness ==
    \E j \in DOMAIN jobs :
        /\ LiveLease(jobs[j], now)
        /\ last.op = "lease_next_job"
        /\ last.job = 0
        /\ last.worker # jobs[j].worker_id

\* C4: update_lease and complete_job called with a worker_id that is not the
\* job's current worker_id (the job's worker_id may be null, the job may not
\* exist) leave every field of every job unchanged.
C4_ForeignCallsDropped ==
    \A j \in JobIds, w \in WorkerIds :
        (j \notin DOMAIN jobs \/ jobs[j].worker_id # w) =>
            /\ \A progress \in ProgressValues \cup {NULL} :
                  update_lease(jobs, j, w, progress, now) = jobs
            /\ \A report \in Reports, tails \in TailPairs :
                  complete_job(jobs, j, w, report[1], report[2],
                               tails[1], tails[2], report[3], now) = jobs

\* a completion report was sent for a job another worker holds, and dropped
C4_Witness ==
    /\ last.op = "complete_job"
    /\ last.job \in DOMAIN jobs
    /\ Active(jobs[last.job])
    /\ jobs[last.job].worker_id \notin {last.worker, NONE}

\* C5: after w1's lease on a job has been stolen by w2, a progress request
\* sent by w1 changes no field of the job.
C5_StaleProgressNoOp ==
    [][\A j \in JobIds :
          ( /\ Kept(j)
            /\ last' = Op("job_progress", j, history[j].stolen_from)
            /\ Active(jobs[j])
            /\ jobs[j].worker_id \notin {history[j].stolen_from, NONE} )
          => jobs'[j] = jobs[j]]_vars

\* C6: a complete call for a job that is already SUCCEEDED or FAILED is a
\* no-op, whatever worker_id and success flag it carries.
C6_SecondCompletionNoOp ==
    [][\A j \in JobIds :
          (Kept(j) /\ last'.op = "complete_job" /\ last'.job = j /\ Terminal(jobs[j]))
          => jobs'[j] = jobs[j]]_vars

\* C7 (its last clause): no operation moves a SUCCEEDED or FAILED job to
\* LEASED or RUNNING.
C7_TerminalNeverActive ==
    [][\A j \in JobIds :
          (Kept(j) /\ Terminal(jobs[j])) => ~Active(jobs'[j])]_vars

\* C8: attempts always equals the number of lease_next_job calls that returned
\* the job, and no operation decreases it.
C8_AttemptsCountLeases ==
    /\ [](\A j \in DOMAIN jobs : jobs[j].attempts = history[j].leases)
    /\ [][\A j \in JobIds :
             Kept(j) => /\ jobs'[j].attempts >= jobs[j].attempts
                        /\ (~HandedOut(j) => jobs'[j].attempts = jobs[j].attempts)]_vars

\* a job leased twice is back in the queue after reset_failed, attempts kept
C8_Witness ==
    \E j \in DOMAIN jobs :
        /\ jobs[j].attempts = 2
        /\ jobs[j].state = PENDING
        /\ last.op = "reset_failed_jobs"

\* C9 as claimed: every job with attempts >= 1 has a non-null started_at,
\* also after reset_failed, lease expiry and release.
C9_StartedOnceAttempted ==
    \A j \in DOMAIN jobs : jobs[j].attempts >= 1 => jobs[j].started_at # NULL

\* C9 as amended: every job with attempts >= 1 that is not PENDING has a
\* non-null started_at, and lease expiry leaves started_at as it was.
C9_StartedUnlessRequeued ==
    /\ [](\A j \in DOMAIN jobs :
             (jobs[j].attempts >= 1 /\ jobs[j].state # PENDING)
                 => jobs[j].started_at # NULL)
    /\ [][last'.op = "expire_leases" =>
             \A j \in DOMAIN jobs :
                 j \in DOMAIN jobs' /\ jobs'[j].started_at = jobs[j].started_at]_vars

\* a job requeued by reset_failed or release was leased again
C9_Witness ==
    \E j \in DOMAIN jobs :
        /\ jobs[j].attempts = 2
        /\ jobs[j].state = LEASED
        /\ history[j].stolen_from = NONE
        /\ jobs[j].started_at = now
        /\ jobs[j].created_at < now

\* C10: every job whose state is SUCCEEDED has progress = 1.0.
C10_SucceededIsComplete ==
    \A j \in DOMAIN jobs : jobs[j].state = SUCCEEDED => jobs[j].progress = 100

\* a progress report arrived for a job that had succeeded, and left it so
C10_Witness ==
    \E j \in DOMAIN jobs :
        /\ jobs[j].state = SUCCEEDED
        /\ last.op = "job_progress"
        /\ last.job = j

\* C11: whenever some job is PENDING, lease_next_job returns a PENDING job of
\* smallest created_at, so of two jobs the one enqueued at the earlier time
\* is never leased after the other: A, B, C enqueued one after another go to
\* three successive callers in that order.
C11_FifoHandout ==
    /\ [](\A j, k \in DOMAIN jobs :
             (jobs[j].created_at < jobs[k].created_at /\ history[k].leases >= 1)
                 => history[j].leases >= 1)
    /\ [][(/\ last'.op = "lease_next_job"
           /\ now' = now
           /\ \E k \in DOMAIN jobs : jobs[k].state = PENDING)
          => /\ last'.job \in DOMAIN jobs
             /\ HandedOut(last'.job)
             /\ jobs[last'.job].state = PENDING
             /\ \A k \in DOMAIN jobs :
                   jobs[k].state = PENDING
                       => jobs[last'.job].created_at <= jobs[k].created_at]_vars

\* three jobs enqueued at three different times were leased, after the last
\* of them was enqueued, by three calls that each took one
C11_Witness ==
    /\ DOMAIN jobs = {1, 2, 3}
    /\ \A j \in DOMAIN jobs :
          /\ jobs[j].created_at = j - 1
          /\ jobs[j].state = LEASED
          /\ jobs[j].attempts = 1
          /\ jobs[j].started_at = 2
    /\ jobs[1].worker_id = "w1"
    /\ jobs[2].worker_id = "w2"
    /\ last = Op("lease_next_job", 3, "w1")

\* C12: lease_next_job hands out a LEASED or RUNNING job only when no job is
\* PENDING and only when that job's lease has expired; a job whose
\* lease_until lies in the future is never handed to another worker.
C12_StealsOnlyExpired ==
    [][\A j \in QueueJobIds :
          HandedOut(j) =>
              /\ Active(jobs[j]) =>
                    /\ \A k \in DOMAIN jobs : jobs[k].state # PENDING
                    /\ jobs[j].lease_until # NULL
                    /\ jobs[j].lease_until < now
              /\ ~(jobs[j].lease_until # NULL /\ jobs[j].lease_until > now)]_vars

\* a worker took over the expired lease of another worker, with no job
\* PENDING: the job enqueued after it had been leased in the meantime
C12_Witness ==
    \E j, k \in DOMAIN jobs :
        /\ j # k
        /\ last.op = "lease_next_job"
        /\ last.job = j
        /\ history[j].stolen_from \notin {NONE, last.worker}
        /\ jobs[j].worker_id = last.worker
        /\ Active(jobs[k])
        /\ jobs[k].created_at > jobs[j].created_at
        /\ jobs[k].started_at > jobs[j].started_at

\* C13: expiry is a strict comparison in lease_next_job and in expire_leases.
\* A LEASED or RUNNING job with lease_until < now is stolen by a lease call
\* that finds no PENDING job and is reverted by expire_leases; a job with
\* lease_until = now is neither stolen nor reverted.
C13_ExpiryIsStrict ==
    [][\A j \in JobIds :
          /\ (HandedOut(j) /\ Active(jobs[j])) => jobs[j].lease_until < now
          /\ ( /\ last'.op = "lease_next_job"
               /\ now' = now
               /\ j \in DOMAIN jobs
               /\ Active(jobs[j])
               /\ jobs[j].lease_until # NULL
               /\ jobs[j].lease_until < now )
             => HandedOut(j)
          /\ (last'.op = "expire_leases" /\ now' = now /\ Kept(j))
             => IF Active(jobs[j]) /\ jobs[j].lease_until # NULL
                                  /\ jobs[j].lease_until < now
                THEN jobs'[j].state = PENDING
                ELSE jobs'[j] = jobs[j]]_vars

\* the sweeper ran at the very instant a lease ended, and left the job alone
C13_Witness ==
    \E j \in DOMAIN jobs :
        /\ Active(jobs[j])
        /\ jobs[j].lease_until = now
        /\ last = Op("expire_leases", 0, NONE)

\* C14: once a job's lease has expired (lease_until < now), a renew
\* (update_lease) or a complete from the worker that held the lease is
\* rejected and leaves the job unchanged.
C14_ExpiredHolderRejected ==
    \A j \in DOMAIN jobs :
        (Active(jobs[j]) /\ jobs[j].lease_until # NULL /\ jobs[j].lease_until < now)
        => /\ \A progress \in ProgressValues \cup {NULL} :
                 update_lease(jobs, j, jobs[j].worker_id, progress, now) = jobs
           /\ \A report \in Reports, tails \in TailPairs :
                 complete_job(jobs, j, jobs[j].worker_id, report[1], report[2],
                              tails[1], tails[2], report[3], now) = jobs

\* the step is a lease request of agent w, served by the lease endpoint
LeaseRequest(w) == agent[w].loop = "poll" /\ agent'[w].loop = "lease_sent"

\* C15: while the pause flag is set, every POST /jobs/lease returns
\* accept_leases = false and no job_id and changes no job, whatever the
\* queue holds and whatever the worker's status is.
C15_PausedLeaseGivesNothing ==
    [][\A w \in Agents :
          (paused /\ LeaseRequest(w))
          => /\ agent'[w].lease_reply.accept_leases = FALSE
             /\ agent'[w].lease_reply.job_id = NULL
             /\ jobs' = jobs]_vars

\* a worker that is ONLINE and accepts leases asked while a job was PENDING
\* and the queue was paused
C15_Witness ==
    \E w \in Agents :
        /\ paused
        /\ agent[w].loop = "lease_sent"
        /\ agent[w].lease_reply = LeaseResponse(FALSE)
        /\ w \in DOMAIN workers
        /\ workers[w].status = ONLINE
        /\ workers[w].accept_leases
        /\ \E j \in DOMAIN jobs : jobs[j].state = PENDING

\* C17: whenever the worker row's status is STOPPING at the time of a lease
\* request, the lease endpoint returns action = "stop" without a job and
\* the request transitions no job to LEASED.
C17_StoppingRowGetsNoJob ==
    [][\A w \in Agents :
          (LeaseRequest(w) /\ w \in DOMAIN workers /\ workers[w].status = STOPPING)
          => /\ agent'[w].lease_reply.action = "stop"
             /\ agent'[w].lease_reply.job_id = NULL
             /\ jobs' = jobs]_vars

\* C18: whenever the worker row's status is FORCE_STOPPING at the time of a
\* lease request, the lease endpoint returns action = "force_stop" without
\* a job and the request transitions no job to LEASED.
C18_ForceStoppingRowGetsNoJob ==
    [][\A w \in Agents :
          (LeaseRequest(w) /\ w \in DOMAIN workers
              /\ workers[w].status = FORCE_STOPPING)
          => /\ agent'[w].lease_reply.action = "force_stop"
             /\ agent'[w].lease_reply.job_id = NULL
             /\ jobs' = jobs]_vars

\* a FORCE_STOPPING row that accepts leases asked, with the queue running
\* and a job PENDING, and was answered force_stop
C18_Witness ==
    \E w \in Agents :
        /\ ~paused
        /\ agent[w].loop = "lease_sent"
        /\ agent[w].lease_reply.action = "force_stop"
        /\ agent[w].lease_reply.job_id = NULL
        /\ w \in DOMAIN workers
        /\ workers[w].status = FORCE_STOPPING
        /\ workers[w].accept_leases
        /\ \E j \in DOMAIN jobs : jobs[j].state = PENDING

\* C19: in every reachable state of the master a worker row whose status is
\* STOPPING or FORCE_STOPPING has accept_leases = false.
C19_StoppingRowsRefuseLeases ==
    \A w \in DOMAIN workers :
        workers[w].status \in {STOPPING, FORCE_STOPPING}
        => ~workers[w].accept_leases

\* agent w has read a paused lease response and stopped asking
PausedWorker(w) ==
    /\ agent[w].loop = "poll"
    /\ ~agent[w].accept_leases
    /\ agent[w].lease_reply = LeaseResponse(FALSE)

\* the queue runs again, a job is PENDING and w's row is not stopped
HandoutsDue(w) ==
    /\ ~paused
    /\ \E j \in DOMAIN jobs : jobs[j].state = PENDING
    /\ w \in DOMAIN workers
    /\ workers[w].status = ONLINE
    /\ workers[w].accept_leases

\* C16: unsetting pause restores handouts: a live worker that received a
\* paused lease response, once the pause flag is cleared while a job is
\* PENDING and the worker has not been stopped, eventually requests a lease
\* again and is handed a job (unless the queue is paused or emptied again
\* before it does).
C16_UnpauseRestoresHandouts ==
    \A w \in Agents :
        (PausedWorker(w) /\ HandoutsDue(w))
        ~> (agent[w].lease_reply.job_id # NULL \/ ~HandoutsDue(w))

\* the worker has been answered while paused and asks no more, and the pause
\* has been lifted with a job PENDING and the worker's row ONLINE
C16_Witness ==
    \E w \in Agents : PausedWorker(w) /\ HandoutsDue(w)

\* C20: in every reachable state of the master a worker row with status
\* OFFLINE has accept_leases = false and running_job_id = null.
C20_OfflineRowIsIdle ==
    \A w \in DOMAIN workers :
        workers[w].status = OFFLINE
        => ~workers[w].accept_leases /\ workers[w].running_job_id = NULL

\* the step is a completion report of agent w, served by job_complete
CompletionReport(w) == agent[w].loop = "run" /\ agent'[w].loop = "reported"

\* C21: the completion endpoint sets the reporting worker's running_job_id
\* to null and its status to ONLINE only if the worker is not STOPPING or
\* FORCE_STOPPING: a row that is STOPPING or FORCE_STOPPING keeps its status
\* across the completion report.
C21_CompletionKeepsStopStatus ==
    [][\A w \in Agents :
          (CompletionReport(w) /\ w \in DOMAIN workers
              /\ workers[w].status \in {STOPPING, FORCE_STOPPING})
          => workers'[w].status = workers[w].status]_vars

\* C22: soft stop: after a stop issued while w runs a job, w is not
\* interrupted and its completion is accepted, and every lease request w
\* makes afterwards, until resume(w), returns accept_leases = false and
\* action = "stop" with no job. In SpecSoftStop a row has accept_leases
\* false exactly from a stop to the next resume.
C22_StoppedWorkerIsToldToStop ==
    [][\A w \in Agents :
          (LeaseRequest(w) /\ w \in DOMAIN workers /\ ~workers[w].accept_leases)
          => /\ agent'[w].lease_reply.accept_leases = FALSE
             /\ agent'[w].lease_reply.action = "stop"
             /\ agent'[w].lease_reply.job_id = NULL
             /\ jobs' = jobs]_vars

\* the step is the first transaction of a heartbeat request of agent w
HeartbeatRequest(w) == agent[w].hb = "wait" /\ agent'[w].hb = "upserted"

\* C23: after a stop of w is committed (the row refuses leases), the next
\* heartbeat of w, which still believes it may lease, returns
\* accept_leases = false and the status of the stop, however the operator's
\* stop_worker call fell between the two transactions of earlier heartbeats.
C23_HeartbeatDeliversStop ==
    [][\A w \in Agents :
          (HeartbeatRequest(w) /\ w \in DOMAIN workers
              /\ ~workers[w].accept_leases /\ agent[w].accept_leases)
          => /\ agent'[w].hb_reply.accept_leases = FALSE
             /\ agent'[w].hb_reply.status \in {STOPPING, FORCE_STOPPING}]_vars

JobFinished(w) == agent[w].loop = "reported" /\ agent'[w].loop = "poll"

\* C25: after a job is aborted by force-stop the worker's status, in its
\* row and as the agent reports it, stays FORCE_STOPPING until a resume:
\* neither the completion report nor the end of the job sets it to ONLINE
\* or STOPPED (SpecForce has no resume).
C25_ForceStopStatusStays ==
    [][\A w \in Agents :
          (agent[w].force_stop /\ (CompletionReport(w) \/ JobFinished(w)))
          => /\ workers'[w].status = FORCE_STOPPING
             /\ agent'[w].status = FORCE_STOPPING]_vars

\* C26: stop(id, force = true) followed by resume(id) on an existing row
\* returns it to status ONLINE and accept_leases true whatever it held
\* before, touching no other field or row; on an unknown id both calls
\* return no worker (404) and create no row.
C26_ForceStopThenResume ==
    [][\A w \in WorkerIds :
          /\ (last.op = "force_stop" /\ last.worker = w
                /\ last'.op = "resume" /\ last'.worker = w
                /\ w \in DOMAIN workers)
             => /\ last'.job = 200
                /\ workers' = [workers EXCEPT ![w].status = ONLINE,
                                               ![w].accept_leases = TRUE]
          /\ (last'.op \in {"force_stop", "resume"} /\ last'.worker = w
                /\ w \notin DOMAIN workers)
             => /\ last'.job = 404
                /\ workers' = workers]_vars

\* a resume has been served on the only row of the table, which is ONLINE
\* and accepts leases and still names its job and its last_seen
C26_Witness ==
    /\ last = Op("resume", 200, "w1")
    /\ DOMAIN workers = {"w1"}
    /\ workers["w1"] = [last_seen |-> 0, status |-> ONLINE,
                        running_job_id |-> 1, accept_leases |-> TRUE]

\* the workers a step marks OFFLINE
NewlyOffline ==
    {w \in DOMAIN workers : /\ workers[w].status # OFFLINE
                            /\ w \in DOMAIN workers'
                            /\ workers'[w].status = OFFLINE}

GoneWhileRunning(w, j, a) ==
    /\ ~Alive(w)
    /\ j \in DOMAIN jobs
    /\ jobs[j].state = RUNNING
    /\ jobs[j].worker_id = w
    /\ jobs[j].attempts = a
    /\ jobs[j].lease_until >= MaxTime
    /\ w \in DOMAIN workers
    /\ workers[w].last_seen + HEARTBEAT_TIMEOUT_SECONDS < MaxTime

\* C28: a worker that falls silent while it runs a job is OFFLINE in the end
\* and its job PENDING with the attempts it had, and every lease of a PENDING
\* job, so the next worker's lease of that job, counts one attempt more
C28_WorkerDisappearance ==
    /\ \A w \in WorkerIds, j \in JobIds, a \in 1..(MaxAttempts + 1) :
          GoneWhileRunning(w, j, a)
            ~> (/\ w \in DOMAIN workers
                /\ j \in DOMAIN jobs
                /\ workers[w].status = OFFLINE
                /\ jobs[j].state = PENDING
                /\ jobs[j].attempts = a)
    /\ [][\A w \in WorkerIds, j \in DOMAIN jobs :
            (/\ jobs[j].state = PENDING
             /\ j \in DOMAIN jobs'
             /\ jobs'[j].state = LEASED
             /\ jobs'[j].worker_id = w)
            => jobs'[j].attempts = jobs[j].attempts + 1]_vars

\* w1 is gone and OFFLINE, and w2 holds the job at its second attempt
C28_Witness ==
    /\ ~Alive("w1")
    /\ "w1" \in DOMAIN workers
    /\ workers["w1"].status = OFFLINE
    /\ \E j \in DOMAIN jobs :
          /\ jobs[j].state = LEASED
          /\ jobs[j].worker_id = "w2"
          /\ jobs[j].attempts = 2

\* a call of reset_failed_jobs (a call that changes nothing at all is a
\* stuttering step)
ResetCall == last'.op = "reset_failed_jobs" /\ last' # last

\* C29: reset_failed_jobs makes every FAILED job PENDING with owner, lease and
\* result fields cleared and progress 0, leaves every other job as it was,
\* returns the number of FAILED jobs it found, and a second call directly
\* after it finds none and changes nothing
C29_ResetFailedIdempotent ==
    [][ResetCall =>
         /\ DOMAIN jobs' = DOMAIN jobs
         /\ \A j \in DOMAIN jobs :
               IF jobs[j].state = FAILED
               THEN /\ jobs'[j].state = PENDING
                    /\ jobs'[j].worker_id = NONE
                    /\ jobs'[j].lease_until = NULL
                    /\ jobs'[j].progress = 0
                    /\ jobs'[j].started_at = NULL
                    /\ jobs'[j].finished_at = NULL
                    /\ jobs'[j].return_code = NULL
                    /\ jobs'[j].stderr_tail = NONE
                    /\ jobs'[j].stdout_tail = NONE
                    /\ jobs'[j].error_message = NONE
               ELSE jobs'[j] = jobs[j]
         /\ last'.job = Cardinality({j \in DOMAIN jobs : jobs[j].state = FAILED})
         /\ reset_failed_jobs(jobs') = jobs'
         /\ reset_failed_count(jobs') = 0]_vars

\* a reset that found a FAILED job, with a SUCCEEDED job next to the job
\* that is PENDING again
C29_Witness ==
    /\ last.op = "reset_failed_jobs"
    /\ last.job >= 1
    /\ \E j, k \in DOMAIN jobs :
          /\ jobs[j].state = PENDING
          /\ jobs[j].attempts >= 1
          /\ jobs[k].state = SUCCEEDED

\* a call of enqueue_folder after an earlier call with the same profile, no
\* other enqueue in between (last is written by no other step here)
SecondEnqueue ==
    /\ last.op = "enqueue_folder"
    /\ last'.op = "enqueue_folder"
    /\ last' # last
    /\ last'.worker = last.worker

\* no two jobs have the same input_path
UniqueInputPaths ==
    \A j, k \in DOMAIN jobs : jobs[j].input_path = jobs[k].input_path => j = k

\* C30 as claimed: the second enqueue of the folder returns added = 0 and
\* skipped = the number of video files, and no two jobs ever share an
\* input_path
C30_SecondEnqueueSkipsAll ==
    /\ [][SecondEnqueue => last'.job = <<0, Len(RootFolder)>>]_vars
    /\ []UniqueInputPaths

\* the video files of the folder that pass the filters of the profile
PassingFiles(profile) ==
    {i \in 1..Len(RootFolder) : ~filtered_out(RootFolder[i], profile)}

\* C30 as amended: the second enqueue of the folder under the same profile
\* adds no job and returns added = 0 and skipped = the number of video files
\* that pass the profile's filters, and no two jobs ever share an input_path
C30_SecondEnqueueSkipsPassing ==
    /\ [][SecondEnqueue =>
            /\ jobs' = jobs
            /\ last'.job = <<0, Cardinality(PassingFiles(last'.worker))>>]_vars
    /\ []UniqueInputPaths

\* the folder was enqueued again under the DJI profile: one file skipped,
\* two files dropped by the filters
C30_Witness ==
    /\ last.op = "enqueue_folder"
    /\ last.worker = "dji_drone_prores_standard"
    /\ last.job = <<0, 1>>
    /\ \E j \in DOMAIN jobs : jobs[j].input_path = "DJI_1.mov"
    /\ \A j \in DOMAIN jobs : jobs[j].input_path # "a.mov"

\* C31: no two jobs in the store have the same output_path, whatever folders
\* were enqueued and whatever files were added between the calls
C31_UniqueOutputPaths ==
    \A j, k \in DOMAIN jobs : jobs[j].output_path = jobs[k].output_path => j = k

\* a step that takes a job out of a lease and back to PENDING
LeaseSwept ==
    \E j \in DOMAIN jobs :
        /\ jobs[j].state \in {LEASED, RUNNING}
        /\ j \in DOMAIN jobs'
        /\ jobs'[j].state = PENDING

\* C32: a sweep of expire_leases makes every LEASED or RUNNING job whose
\* lease_until is before now PENDING without owner and lease, all its other
\* fields and attempts as before, and leaves every other job unchanged; and a
\* job in the hands of a worker that is gone, whose lease ends within the
\* clock's range, is PENDING again in the end, unless another worker was
\* handed the expired lease first
C32_ExpiredLeasesReturn ==
    /\ [][LeaseSwept =>
            /\ DOMAIN jobs' = DOMAIN jobs
            /\ \A j \in DOMAIN jobs :
                  IF /\ jobs[j].state \in {LEASED, RUNNING}
                     /\ jobs[j].lease_until # NULL
                     /\ jobs[j].lease_until < now
                  THEN jobs'[j] = [jobs[j] EXCEPT !.state = PENDING,
                                                  !.worker_id = NONE,
                                                  !.lease_until = NULL]
                  ELSE jobs'[j] = jobs[j]]_vars
    /\ \A w \in WorkerIds, j \in JobIds :
          (/\ ~Alive(w)
           /\ j \in DOMAIN jobs
           /\ jobs[j].state \in {LEASED, RUNNING}
           /\ jobs[j].worker_id = w
           /\ jobs[j].lease_until < MaxTime)
            ~> (/\ j \in DOMAIN jobs
                /\ jobs[j].state = PENDING \/ jobs[j].worker_id # w)

\* both workers are gone and the job one of them ran is PENDING again
C32_Witness ==
    /\ \A w \in WorkerIds : ~Alive(w)
    /\ \E j \in DOMAIN jobs :
          /\ jobs[j].state = PENDING
          /\ jobs[j].worker_id = NONE
          /\ jobs[j].lease_until = NULL
          /\ jobs[j].attempts >= 1
          /\ jobs[j].progress > 0

\* C33: a lease request that makes a job LEASED for worker w is answered with
\* that job_id, and the agent that reads an answer with a job_id starts to
\* execute that job
C33_LeasedJobIsExecuted ==
    [][\A w \in Agents :
         /\ \A j \in DOMAIN jobs :
               (/\ j \in DOMAIN jobs'
                /\ jobs'[j].state = LEASED
                /\ jobs'[j].worker_id = w
                /\ ~(jobs[j].state = LEASED /\ jobs[j].worker_id = w))
               => (/\ agent'[w].loop = "lease_sent"
                   /\ agent'[w].lease_reply.job_id = j)
         /\ (/\ agent[w].loop = "lease_sent"
             /\ agent[w].lease_reply.job_id # NULL
             /\ agent'[w].loop # "lease_sent")
            => (/\ agent'[w].loop = "run"
                /\ agent'[w].current_job = agent[w].lease_reply.job_id)]_vars

\* the row of worker w and the agent agree on ONLINE and on accepting leases
SettledOnline(w) ==
    /\ w \in DOMAIN workers
    /\ workers[w].status = ONLINE
    /\ workers[w].accept_leases
    /\ agent[w].status = ONLINE
    /\ agent[w].accept_leases

\* C34: after a stop or force stop of an idle worker and the resume that
\* follows it, the worker's row and the agent settle at ONLINE with
\* accept_leases true, and a job that is PENDING is handed out
C34_ResumedWorkerLeasesAgain ==
    \A w \in Agents :
        /\ [](last = Op("resume", 200, w) => <>[]SettledOnline(w))
        /\ (last = Op("resume", 200, w)
             /\ \E j \in DOMAIN jobs : jobs[j].state = PENDING)
              ~> (\E j \in DOMAIN jobs : jobs[j].state # PENDING)

\* the step is a heartbeat request of agent w, served in one piece
HeartbeatServed(w) == agent[w].hb = "wait" /\ agent'[w].hb = "sent"

\* C35: the heartbeat of a worker whose row is OFFLINE takes the row out of
\* OFFLINE, and with no operator at work the row and the agent accept leases
\* again in the end
C35_OfflineWorkerReturns ==
    /\ [][\A w \in Agents :
            (/\ w \in DOMAIN workers
             /\ workers[w].status = OFFLINE
             /\ HeartbeatServed(w))
            => workers'[w].status = ONLINE]_vars
    /\ \A w \in Agents :
          (w \in DOMAIN workers /\ workers[w].status = OFFLINE)
            ~> (/\ w \in DOMAIN workers
                /\ workers[w].accept_leases
                /\ agent[w].accept_leases)

\* the queue is not paused, and worker w and its row accept leases
KeepsAccepting(w) ==
    /\ ~paused
    /\ agent[w].accept_leases
    /\ w \in DOMAIN workers => workers[w].accept_leases

AgentCheckLease(w) ==
    /\ agent[w].loop = "poll"
    /\ ~agent[w].stop
    /\ may_request_job(agent[w])
    /\ agent' = [agent EXCEPT ![w].loop = "checked"]
    /\ AgentOnly

AgentPostLease(w) ==
    /\ agent[w].loop = "checked"
    /\ \E reply \in [status_code : {200, 500}, job_id : JobIds \cup {NULL},
                     accept_leases : BOOLEAN,
                     action : {NONE, "stop", "force_stop"}] :
          /\ lease_job(w, reply)
          /\ agent' = [agent EXCEPT ![w].loop = "lease_sent",
                                     ![w].lease_reply = reply]

PollNext ==
    \/ \E w \in Agents : AgentCheckLease(w)
    \/ \E w \in Agents : AgentPostLease(w)
    \/ \E w \in Agents : AgentReadLease(w)
    \/ \E w \in Agents : AgentSendProgress(w)
    \/ \E w \in Agents : AgentSendCompletion(w)
    \/ \E w \in Agents : AgentFinishJob(w)
    \/ \E w \in Agents : AgentSendHeartbeat(w)
    \/ \E w \in Agents : AgentReadHeartbeat(w)
    \/ \E w \in Agents : RequestStop(w)
    \/ \E w \in Agents : RequestForceStop(w)
    \/ \E w \in Agents : RequestResume(w)
    \/ MasterEnqueueFolder
    \/ MasterClearAllJobs

\* the agent's two threads, the operator and the queue, the clock standing still
SpecPoll == MasterInit /\ [][PollNext]_vars

\* the lease loop passes its test / sends the request it decided on
LeaseDecided(w) == agent[w].loop = "poll" /\ agent'[w].loop = "checked"

LeasePosted(w) == agent[w].loop = "checked" /\ agent'[w].loop = "lease_sent"

\* the agent is executing a job: between taking it from a reply and clearing it
Executing(a) == a.loop \in {"run", "reported"}

\* C38: the lease loop decides to send a lease request only when it has no
\* current job, accept_leases is true and the force-stop flag is clear; the
\* request is sent with no current job and while nothing is executing, and
\* the agent has a current job exactly while it executes one
C38_LeaseOnlyWhenIdle ==
    [][\A w \in Agents :
         /\ LeaseDecided(w)
            => (/\ agent[w].current_job = NULL
                /\ agent[w].accept_leases
                /\ ~agent[w].force_stop)
         /\ LeasePosted(w)
            => (agent[w].current_job = NULL /\ ~Executing(agent[w]))
         /\ Executing(agent[w]) <=> agent[w].current_job # NULL
         /\ Executing(agent'[w]) <=> agent'[w].current_job # NULL]_vars

\* the agent has executed a job to success and has sent its next lease request
C38_Witness ==
    \E w \in Agents, j \in DOMAIN jobs :
        /\ jobs[j].state = SUCCEEDED
        /\ jobs[j].worker_id = w
        /\ agent[w].loop = "lease_sent"


(* The agent with its encoder subprocess and WorkerClient.stop(), which the  *)
(* GUI calls on its own thread while run() is on the worker thread.          *)
(* _execute_job is taken step by step: "run" is its start, "spawned" is      *)
(* after Popen returned (line 235), "supervise" is from line 247 to the      *)
(* return of process.wait()                                                  *)

SIGTERM == 0 - 15

\* subprocess.Popen of _execute_job, lines 228-235
AgentSpawnEncoder(w) ==
    /\ agent[w].loop = "run"
    /\ agent[w].process = "none"
    /\ agent' = [agent EXCEPT ![w].process = "alive", ![w].loop = "spawned"]
    /\ AgentOnly

\* _execute_job, lines 247-265: _active_process is set, the force-stop
\* watcher is started and the first progress report is sent
AgentSuperviseEncoder(w) ==
    /\ agent[w].loop = "spawned"
    /\ agent' = [agent EXCEPT ![w].active_process = TRUE,
                               ![w].loop = "supervise"]
    /\ jobs' = job_progress(jobs, agent[w].current_job, w, 0, NONE, NONE, now)
    /\ UNCHANGED <<now, history, last, workers, paused, gui>>

\* the encoder comes to its end by itself
EncoderExits(w) ==
    /\ agent[w].process = "alive"
    /\ \E return_code \in {0, 1} :
          agent' = [agent EXCEPT ![w].process = "exited",
                                 ![w].return_code = return_code]
    /\ AgentOnly

\* _terminate_process, lines 387-400, on a process that is alive
terminate_process(a) ==
    IF a.process = "alive"
    THEN [a EXCEPT !.process = "exited", !.return_code = SIGTERM]
    ELSE a

\* _terminate_active_process, lines 380-384
terminate_active_process(a) ==
    IF a.active_process THEN terminate_process(a) ELSE a

\* _watch_force_stop, lines 374-378: the thread started at line 254 stays in
\* its loop while the process runs and _stop_event is clear
AgentWatchForceStop(w) ==
    /\ agent[w].loop = "supervise"
    /\ agent[w].process = "alive"
    /\ ~agent[w].stop
    /\ agent[w].force_stop
    /\ agent' = [agent EXCEPT ![w] = terminate_process(@)]
    /\ AgentOnly

\* _execute_job, lines 269-272: the encoder writes a line to stderr while
\* the force-stop event is set
AgentReadStderr(w) ==
    /\ agent[w].loop = "supervise"
    /\ agent[w].process = "alive"
    /\ agent[w].force_stop
    /\ agent' = [agent EXCEPT ![w] = terminate_process(@)]
    /\ AgentOnly

\* _execute_job, lines 286-294: process.wait() has returned
AgentReportExit(w) ==
    /\ agent[w].loop = "supervise"
    /\ agent[w].process = "exited"
    /\ LET return_code == agent[w].return_code
           success == return_code = 0 /\ ~agent[w].force_stop
       IN  /\ job_complete(agent[w].current_job, w, success, return_code,
                           "", "out", IF success THEN NONE ELSE "FFmpeg failed")
           /\ agent' = [agent EXCEPT
                 ![w].status = IF agent[w].force_stop /\ return_code # 0
                               THEN FORCE_STOPPING ELSE @,
                 ![w].active_process = FALSE,
                 ![w].process = "none",
                 ![w].loop = "reported"]

\* _loop, line 135: the lease loop sees _stop_event and returns
AgentLoopExits(w) ==
    /\ agent[w].loop = "poll"
    /\ agent[w].stop
    /\ agent' = [agent EXCEPT ![w].loop = "exited"]
    /\ AgentOnly

\* _heartbeat_loop, line 477: the wait returns true
AgentHeartbeatExits(w) ==
    /\ agent[w].hb = "wait"
    /\ agent[w].stop
    /\ agent' = [agent EXCEPT ![w].hb = "exited"]
    /\ AgentOnly

(* WorkerClient.stop, lines 127-130 *)
stop(a) ==
    terminate_active_process([a EXCEPT !.stop = TRUE, !.force_stop = TRUE])

AgentStop(w) ==
    /\ ~agent[w].stop
    /\ agent' = [agent EXCEPT ![w] = stop(@)]
    /\ AgentOnly

\* the lease thread and the heartbeat thread of the agent
AgentLeaseThread(w) ==
    \/ AgentRequestJob(w)
    \/ AgentReadLease(w)
    \/ AgentSpawnEncoder(w)
    \/ AgentSuperviseEncoder(w)
    \/ AgentReportExit(w)
    \/ AgentFinishJob(w)
    \/ AgentLoopExits(w)

AgentHeartbeatThread(w) ==
    \/ AgentSendHeartbeat(w)
    \/ AgentReadHeartbeat(w)
    \/ AgentHeartbeatExits(w)

StopNext ==
    \/ \E w \in Agents : AgentLeaseThread(w)
    \/ \E w \in Agents : AgentHeartbeatThread(w)
    \/ \E w \in Agents : AgentWatchForceStop(w)
    \/ \E w \in Agents : AgentReadStderr(w)
    \/ \E w \in Agents : EncoderExits(w)
    \/ \E w \in Agents : AgentStop(w)
    \/ \E w \in Agents : RequestForceStop(w)
    \/ \E w \in Agents : RequestResume(w)
    \/ MasterEnqueueFolder
    \/ MasterClearAllJobs

\* both threads of the agent keep running, and an encoder left to itself
\* comes to its end; stop() may be called at any time, once
SpecStop ==
    /\ MasterInit
    /\ [][StopNext]_vars
    /\ \A w \in Agents :
          /\ WF_vars(AgentLeaseThread(w))
          /\ WF_vars(AgentHeartbeatThread(w))
          /\ WF_vars(EncoderExits(w))

\* the step is a call of stop() / the completion report of _execute_job
StopCall(w) == ~agent[w].stop /\ agent'[w].stop

ExitReport(w) == agent[w].loop = "supervise" /\ agent'[w].loop = "reported"

\* C39: stop() sets the stop and the force-stop flag; once it has returned
\* no encoder of the agent is running; a job the agent reports after it is
\* reported with success = false; and the lease loop and the heartbeat loop
\* exit
C39_StopWindsDown ==
    /\ [][\A w \in Agents :
            StopCall(w) => (agent'[w].stop /\ agent'[w].force_stop)]_vars
    /\ [](\A w \in Agents : agent[w].stop => agent[w].process # "alive")
    /\ [][\A w \in Agents :
            (agent[w].stop /\ ExitReport(w))
            => \A j \in DOMAIN jobs' :
                  j = agent[w].current_job => jobs'[j].state # SUCCEEDED]_vars
    /\ \A w \in Agents :
          agent[w].stop ~> (agent[w].loop = "exited" /\ agent[w].hb = "exited")

=============================================================================
